---- MODULE Spec2Model ----
(***************************************************************************)
(* Model of step 6 (path construction) of the dependency analysis          *)
(* pipeline: src/src/utils/library_extractor.js, lines 69-268.             *)
(*                                                                         *)
(* A tree node is identified by its root-to-node path, a non-empty         *)
(* sequence of package names; the dependency tree is the prefix-closed     *)
(* set of those paths.  Package names and file names are strings, CVSS     *)
(* scores are integers.                                                    *)
(***************************************************************************)
EXTENDS Integers, Sequences, FiniteSets, TLC

VARIABLES
    dependencyTree,             \* step1_output.json: set of root-to-node paths
    keyOrder,                   \* insertion order of the keys of the tree document
    devDependencies,            \* Object.keys(step2_output.json)
    withinProjectDocument,      \* step3_output.json, an array of names
    vulnerabilitiesData,        \* step5_output.json, an array of findings
    laggingDependenciesData,    \* step4_output.json
    queue,                      \* work queue of paths
    foundVulnerableDeps,        \* Set of names
    report,                     \* { paths, dependencies [, vulnerabilityExposure] }
    vulnerabilityExposure,      \* name -> count
    dequeued,                   \* history: the paths taken by queue.shift(), in order
    pc,                         \* "start" | "init" | "loop" | "done" | "idle"
    call                        \* frame of one simplifyPath call, run step by step

vars == <<dependencyTree, keyOrder, devDependencies, withinProjectDocument,
          vulnerabilitiesData, laggingDependenciesData, queue,
          foundVulnerableDeps, report, vulnerabilityExposure, dequeued, pc, call>>

inputs == <<dependencyTree, keyOrder, devDependencies, withinProjectDocument,
            vulnerabilitiesData, laggingDependenciesData>>

traversal == <<queue, foundVulnerableDeps, report, vulnerabilityExposure,
               dequeued, pc>>

(***************************************************************************)
(* Bounds of the model.                                                    *)
(***************************************************************************)
MaxNodes == 3       \* nodes of the dependency tree
MaxSteps == 12      \* iterations of the traversal loop that are explored
MaxPathLen == 3     \* length of the paths given to simplifyPath on its own

Names == {"", "0", "A", "B"}

\* a JSON value that is a number or null: <<n>> is the number n, <<>> is null
NULL == <<>>
Num(n) == <<n>>

(***************************************************************************)
(* Helpers for sequences, strings and functions.                           *)
(***************************************************************************)
Last(s) == s[Len(s)]

Range(s) == {s[i] : i \in 1..Len(s)}

EmptyMap == [n \in {} |-> 0]

Max(S) == CHOOSE m \in S : \A k \in S : k <= m

\* String.prototype.indexOf: first 1-based position of pat in s, 0 if none
IndexOf(s, pat) ==
    LET hits == {i \in 1..(Len(s) - Len(pat) + 1) :
                    SubSeq(s, i, i + Len(pat) - 1) = pat}
    IN  IF hits = {} THEN 0 ELSE CHOOSE i \in hits : \A j \in hits : i <= j

\* s.split(sep)[0]
SplitFirst(s, sep) ==
    LET i == IndexOf(s, sep)
    IN  IF i = 0 THEN s ELSE SubSeq(s, 1, i - 1)

\* s.replace(pat, ''): removes the first occurrence only
ReplaceFirst(s, pat) ==
    LET i == IndexOf(s, pat)
    IN  IF i = 0 THEN s
        ELSE SubSeq(s, 1, i - 1) \o SubSeq(s, i + Len(pat), Len(s))

\* s.startsWith(p)
StartsWith(s, p) == Len(p) <= Len(s) /\ SubSeq(s, 1, Len(p)) = p

(***************************************************************************)
(* Input documents the run may be given.                                   *)
(***************************************************************************)
\* Object.keys lists integer-like keys first, then the others in insertion order
KeyOrders == {<<"0", "", "A", "B">>, <<"0", "B", "A", "">>}

\* the trees of at most k nodes: the empty tree, and a smaller tree with one
\* more child under the root or under one of its nodes
RECURSIVE TreesUpTo(_)
TreesUpTo(k) ==
    IF k = 0 THEN {{}}
    ELSE LET smaller == TreesUpTo(k - 1)
         IN  smaller \cup
             UNION {{t \cup {Append(p, n)} : p \in t \cup {<<>>}, n \in Names} :
                        t \in smaller}

Trees == {t \in TreesUpTo(MaxNodes) : Cardinality(t) <= MaxNodes}

\* step2_output.json: the keys of the devDependencies object
DevDocuments == {{}, {"A"}}

\* step3_output.json: the array step 3 writes
WithinProjectDocuments == {<<>>, <<"A">>}

\* step5_output.json holds some of these findings, in this order
AllFindings ==
    << [fileName |-> "A.min.js", vulnerabilities |-> <<[cvss |-> NULL]>>],
       [fileName |-> "B:1.2.0",  vulnerabilities |-> <<[cvss |-> Num(5)], [cvss |-> Num(9)]>>],
       [fileName |-> "0.js",     vulnerabilities |-> <<[cvss |-> Num(7)]>>],
       [fileName |-> "A-cli:2.0.0", vulnerabilities |-> <<[cvss |-> Num(4)]>>] >>

FileNames == {AllFindings[i].fileName : i \in 1..Len(AllFindings)}

FindingDocuments ==
    {SelectSeq(AllFindings, LAMBDA f : f \in S) : S \in SUBSET Range(AllFindings)}

\* step4_output.json
NoLagDocument == [laggingDependencies |-> {}, releaseInterval |-> EmptyMap]

LagDocuments ==
    { [laggingDependencies |-> {"A"}, releaseInterval |-> ("A" :> 30 @@ "B" :> 0)] }

(***************************************************************************)
(* The values step6_constructPath derives from the documents.              *)
(***************************************************************************)
DEVELOPMENT_ONLY == "development-only"
WITHIN_PROJECT == "within-project"
LAGGING == "lagging"
VULNERABLE == "vulnerable"

\* Object.keys of an array: its indices, as strings
withinProjectDependencies ==
    {ToString(i - 1) : i \in 1..Len(withinProjectDocument)}

\* fileName.split(':')[0].replace('.min', '').replace('.js', ''), tabulated
packageNameOf ==
    [fileName \in FileNames |->
        ReplaceFirst(ReplaceFirst(SplitFirst(fileName, ":"), ".min"), ".js")]

vulnerabilities ==
    [i \in 1..Len(vulnerabilitiesData) |-> packageNameOf[vulnerabilitiesData[i].fileName]]

laggingDependencies == laggingDependenciesData.laggingDependencies

releaseIntervals == laggingDependenciesData.releaseInterval

(***************************************************************************)
(* Classification.                                                         *)
(***************************************************************************)
\* ToNumber as Math.max applies it to a cvss value: null becomes 0
ToNumber(v) == IF v = NULL THEN 0 ELSE v[1]

RECURSIVE Flatten(_)
Flatten(ss) == IF ss = <<>> THEN <<>> ELSE Head(ss) \o Flatten(Tail(ss))

\* entry.fileName.startsWith(dependency), tabulated
fileNameStartsWith ==
    [fileName \in FileNames |->
        [dependency \in Names |-> StartsWith(fileName, dependency)]]

getHighestCvssScoreForDependency(dependency, data) ==
    LET relevantEntries ==
            SelectSeq(data, LAMBDA entry : fileNameStartsWith[entry.fileName][dependency])
        scores ==
            Flatten([i \in 1..Len(relevantEntries) |->
                        [j \in 1..Len(relevantEntries[i].vulnerabilities) |->
                            relevantEntries[i].vulnerabilities[j].cvss]])
    IN  Max({-1} \cup {ToNumber(scores[i]) : i \in 1..Len(scores)})

\* releaseIntervals[dependency] || -1
intervalsOf(dependency) ==
    IF dependency \in DOMAIN releaseIntervals /\ releaseIntervals[dependency] # 0
    THEN releaseIntervals[dependency]
    ELSE -1

\* the types array of classifyDependency
dependencyTypesOf(dependency) ==
    LET t1 == IF dependency \in devDependencies THEN <<DEVELOPMENT_ONLY>> ELSE <<>>
        t2 == IF dependency \in withinProjectDependencies THEN <<WITHIN_PROJECT>> ELSE <<>>
        t3 == IF dependency \in laggingDependencies THEN <<LAGGING>> ELSE <<>>
        t4 == IF dependency \in Range(vulnerabilities) THEN <<VULNERABLE>> ELSE <<>>
    IN  t1 \o t2 \o t3 \o t4

classifyDependency(dependency) ==
    [dependencyTypes |-> dependencyTypesOf(dependency),
     highestCvssScore |->
         getHighestCvssScoreForDependency(dependency, vulnerabilitiesData),
     intervals |-> intervalsOf(dependency)]

(***************************************************************************)
(* The dependency tree.                                                    *)
(***************************************************************************)
\* Object.keys(node.dependencies || {}) of the node at path p (<<>> is the root)
Keys(tree, p) ==
    SelectSeq(keyOrder, LAMBDA n : Append(p, n) \in tree)

\* a walk that also queues each node again when it pops it
RECURSIVE walk_requeue(_, _, _)
walk_requeue(tree, stack, q) ==
    IF stack = <<>> THEN q
    ELSE LET path == Last(stack)
             deps == Keys(tree, path)
             newPaths == [i \in 1..Len(deps) |-> Append(path, deps[i])]
             again == IF path = <<>> THEN <<>> ELSE <<path>>
         IN  walk_requeue(tree, SubSeq(stack, 1, Len(stack) - 1) \o newPaths,
                          q \o again \o newPaths)

\* the walk of the stack: each popped node appends its children's paths to the
\* queue and pushes them on the stack
\* (the set binds st and qu to the values of stack and q, so that each round of
\* the while loop is evaluated once)
RECURSIVE walk(_, _, _)
walk(tree, stack, q) ==
    CHOOSE result \in
        { IF st = <<>> THEN qu
          ELSE LET path == Last(st)
                   deps == Keys(tree, path)
                   newPaths == [i \in 1..Len(deps) |-> Append(path, deps[i])]
               IN  walk(tree, SubSeq(st, 1, Len(st) - 1) \o newPaths, qu \o newPaths) :
          st \in {stack}, qu \in {q} } : TRUE

\* a queue of the root's children only: the walk without its stack.push
initializeQueueWithNestedDeps_rootOnly(tree) ==
    LET deps == Keys(tree, <<>>)
    IN  [i \in 1..Len(deps) |-> <<deps[i]>>]

initializeQueueWithNestedDeps(tree) == walk(tree, << <<>> >>, <<>>)

\* the children of the root, whatever the path: the lookup without its descent
findChildren_noDescent(tree, currentPath) == Keys(tree, <<>>)

findChildren(tree, currentPath) ==
    IF \A i \in 1..Len(currentPath) : SubSeq(currentPath, 1, i) \in tree
    THEN Keys(tree, currentPath)
    ELSE <<>>

(***************************************************************************)
(* Path simplification.  A frame holds the locals of one simplifyPath      *)
(* call; simplifyNode is one iteration of its for loop.                    *)
(***************************************************************************)
newFrame(path, within) ==
    [path |-> path, withinProjectDependencies |-> within, next |-> 1,
     simplifiedPath |-> <<>>, withinProjectBuffer |-> <<>>, returned |-> FALSE]

IdleFrame == [newFrame(<<>>, {}) EXCEPT !.returned = TRUE]

\* an iteration that pushes the node only when the buffer is empty
simplifyNode_dropNode(f, node) ==
    IF node \in f.withinProjectDependencies
    THEN [f EXCEPT !.withinProjectBuffer = Append(@, node)]
    ELSE IF Len(f.withinProjectBuffer) > 0
         THEN [f EXCEPT !.simplifiedPath = Append(@, Last(f.withinProjectBuffer)),
                        !.withinProjectBuffer = <<>>]
         ELSE [f EXCEPT !.simplifiedPath = Append(@, node)]

simplifyNode(f, node) ==
    IF node \in f.withinProjectDependencies
    THEN [f EXCEPT !.withinProjectBuffer = Append(@, node)]
    ELSE IF Len(f.withinProjectBuffer) > 0
         THEN [f EXCEPT !.simplifiedPath =
                            Append(Append(@, Last(f.withinProjectBuffer)), node),
                        !.withinProjectBuffer = <<>>]
         ELSE [f EXCEPT !.simplifiedPath = Append(@, node)]

\* the for loop, from frame on (the set binds f to the value of frame, so that
\* each iteration is evaluated once)
RECURSIVE simplifyLoop(_)
simplifyLoop(frame) ==
    CHOOSE result \in
        { IF f.next > Len(f.path) THEN f
          ELSE simplifyLoop([simplifyNode(f, f.path[f.next]) EXCEPT !.next = f.next + 1]) :
          f \in {frame} } : TRUE

simplifyPath(path, within) == simplifyLoop(newFrame(path, within)).simplifiedPath

(***************************************************************************)
(* Ranking of the paths.                                                   *)
(***************************************************************************)
\* report.dependencies[node]?.highestCvssScore || 0
scoreOrZero(node, dependencies) ==
    IF node \in DOMAIN dependencies THEN dependencies[node].highestCvssScore ELSE 0

\* a.map(...).reduce((max, score) => Math.max(max, score), 0)
highestCvssScoreOf(path, dependencies) ==
    Max({0} \cup {scoreOrZero(path[i], dependencies) : i \in 1..Len(path)})

\* the comparator: negative when a goes first
comparePaths(a, b, dependencies) ==
    highestCvssScoreOf(b, dependencies) - highestCvssScoreOf(a, dependencies)

\* Array.prototype.sort with this comparator: it is stable, so a path goes
\* after the paths the comparator puts first and after the earlier paths the
\* comparator ties with it
sortPaths(paths, dependencies) ==
    LET before(j, i) ==
            \/ comparePaths(paths[j], paths[i], dependencies) < 0
            \/ comparePaths(paths[j], paths[i], dependencies) = 0 /\ j < i
        position == [i \in 1..Len(paths) |->
                        Cardinality({j \in 1..Len(paths) : before(j, i)}) + 1]
    IN  [k \in 1..Len(paths) |->
            paths[CHOOSE i \in 1..Len(paths) : position[i] = k]]

(***************************************************************************)
(* step6_constructPath.                                                    *)
(***************************************************************************)
\* The documents are distinguished only in what they say about the tree at
\* hand: two runs whose documents differ in a package that is not in the tree,
\* or in the order of keys that are not siblings, take the same steps.
namesOf(tree) == {Last(p) : p \in tree} \ {""}

\* both key orders list "0" first: they differ for a node with two other children
KeyOrdersFor(tree) ==
    IF \E p \in tree \cup {<<>>} :
           Cardinality({n \in Names \ {"0"} : Append(p, n) \in tree}) >= 2
    THEN KeyOrders
    ELSE {<<"0", "", "A", "B">>}

DevDocumentsFor(tree) == {d \in DevDocuments : d \subseteq namesOf(tree)}

\* the documents whose findings each have a file name that starts with a name
\* of the tree
FindingDocumentsFor(tree) ==
    {d \in FindingDocuments :
        \A i \in 1..Len(d) :
            \E n \in namesOf(tree) : fileNameStartsWith[d[i].fileName][n]}

\* before step6_constructPath has read its documents
Init ==
    /\ dependencyTree = {}
    /\ keyOrder = <<>>
    /\ devDependencies = {}
    /\ withinProjectDocument = <<>>
    /\ vulnerabilitiesData = <<>>
    /\ laggingDependenciesData = NoLagDocument
    /\ queue = <<>>
    /\ foundVulnerableDeps = {}
    /\ report = [paths |-> <<>>, dependencies |-> EmptyMap]
    /\ vulnerabilityExposure = EmptyMap
    /\ dequeued = <<>>
    /\ pc = "start"
    /\ call = IdleFrame

\* JSON.parse(fs.readFileSync(...)) of the five documents
ReadDocuments ==
    /\ pc = "start"
    /\ dependencyTree' \in Trees
    /\ keyOrder' \in KeyOrdersFor(dependencyTree')
    /\ devDependencies' \in DevDocumentsFor(dependencyTree')
    /\ withinProjectDocument' \in WithinProjectDocuments
    /\ vulnerabilitiesData' \in FindingDocumentsFor(dependencyTree')
    /\ laggingDependenciesData' \in LagDocuments
    /\ pc' = "init"
    /\ UNCHANGED <<queue, foundVulnerableDeps, report, vulnerabilityExposure,
                   dequeued, call>>

InitializeQueue ==
    /\ pc = "init"
    /\ queue' = initializeQueueWithNestedDeps(dependencyTree)
    /\ pc' = "loop"
    /\ UNCHANGED <<inputs, foundVulnerableDeps, report, vulnerabilityExposure,
                   dequeued, call>>

currentPath == Head(queue)

currentNode == Last(currentPath)

Looping == pc = "loop" /\ Len(queue) > 0 /\ Len(dequeued) < MaxSteps

\* if (!currentNode) continue;
SkipEmptyName ==
    /\ Looping
    /\ currentNode = ""
    /\ queue' = Tail(queue)
    /\ dequeued' = Append(dequeued, currentPath)
    /\ UNCHANGED <<inputs, foundVulnerableDeps, report, vulnerabilityExposure, pc, call>>

\* report.dependencies left as it is: the loop body without its line 234
recorded_nothing(node) == report.dependencies

recorded(node) == (node :> classifyDependency(node)) @@ report.dependencies

RecordVulnerable ==
    /\ Looping
    /\ currentNode # ""
    /\ VULNERABLE \in Range(dependencyTypesOf(currentNode))
    /\ queue' = Tail(queue)
    /\ dequeued' = Append(dequeued, currentPath)
    /\ vulnerabilityExposure' =
           (currentNode :> (IF currentNode \in DOMAIN vulnerabilityExposure
                            THEN vulnerabilityExposure[currentNode] ELSE 0) + 1)
           @@ vulnerabilityExposure
    /\ report' = [report EXCEPT
           !.dependencies = recorded(currentNode),
           !.paths = Append(@, simplifyPath(currentPath, withinProjectDependencies))]
    /\ foundVulnerableDeps' = foundVulnerableDeps \cup {currentNode}
    /\ UNCHANGED <<inputs, pc, call>>

\* the expansion without the test of foundVulnerableDeps
ExpandChildren_unfiltered ==
    /\ Looping
    /\ currentNode # ""
    /\ VULNERABLE \notin Range(dependencyTypesOf(currentNode))
    /\ DEVELOPMENT_ONLY \notin Range(dependencyTypesOf(currentNode))
    /\ LET children == findChildren(dependencyTree, currentPath)
       IN  queue' = Tail(queue) \o [i \in 1..Len(children) |-> Append(currentPath, children[i])]
    /\ dequeued' = Append(dequeued, currentPath)
    /\ report' = [report EXCEPT !.dependencies = recorded(currentNode)]
    /\ UNCHANGED <<inputs, foundVulnerableDeps, vulnerabilityExposure, pc, call>>

ExpandChildren ==
    /\ Looping
    /\ currentNode # ""
    /\ VULNERABLE \notin Range(dependencyTypesOf(currentNode))
    /\ DEVELOPMENT_ONLY \notin Range(dependencyTypesOf(currentNode))
    /\ LET children == findChildren(dependencyTree, currentPath)
           fresh == SelectSeq(children, LAMBDA child : child \notin foundVulnerableDeps)
       IN  queue' = Tail(queue) \o [i \in 1..Len(fresh) |-> Append(currentPath, fresh[i])]
    /\ dequeued' = Append(dequeued, currentPath)
    /\ report' = [report EXCEPT !.dependencies = recorded(currentNode)]
    /\ UNCHANGED <<inputs, foundVulnerableDeps, vulnerabilityExposure, pc, call>>

PruneDevelopmentOnly ==
    /\ Looping
    /\ currentNode # ""
    /\ VULNERABLE \notin Range(dependencyTypesOf(currentNode))
    /\ DEVELOPMENT_ONLY \in Range(dependencyTypesOf(currentNode))
    /\ queue' = Tail(queue)
    /\ dequeued' = Append(dequeued, currentPath)
    /\ report' = [report EXCEPT !.dependencies = recorded(currentNode)]
    /\ UNCHANGED <<inputs, foundVulnerableDeps, vulnerabilityExposure, pc, call>>

\* the loop has ended: attach the exposure counts and sort the paths
FinishReport ==
    /\ pc = "loop"
    /\ Len(queue) = 0
    /\ report' = [paths |-> sortPaths(report.paths, report.dependencies),
                  dependencies |-> report.dependencies,
                  vulnerabilityExposure |-> vulnerabilityExposure]
    /\ pc' = "done"
    /\ UNCHANGED <<inputs, queue, foundVulnerableDeps, vulnerabilityExposure,
                   dequeued, call>>

Next ==
    \/ ReadDocuments
    \/ InitializeQueue
    \/ SkipEmptyName
    \/ RecordVulnerable
    \/ ExpandChildren
    \/ PruneDevelopmentOnly
    \/ FinishReport

Spec == Init /\ [][Next]_vars

\* the loop is sequential code: it always takes its next step
FairSpec == Spec /\ WF_vars(Next)

(***************************************************************************)
(* simplifyPath on its own, for every path and within-project list.        *)
(***************************************************************************)
RECURSIVE PathsUpTo(_)
PathsUpTo(k) ==
    IF k = 0 THEN {<<>>}
    ELSE LET shorter == PathsUpTo(k - 1)
         IN  shorter \cup {Append(p, n) : p \in shorter, n \in Names}

SimplifyInit ==
    /\ dependencyTree = {}
    /\ keyOrder = <<>>
    /\ devDependencies = {}
    /\ withinProjectDocument = <<>>
    /\ vulnerabilitiesData = <<>>
    /\ laggingDependenciesData = NoLagDocument
    /\ queue = <<>>
    /\ foundVulnerableDeps = {}
    /\ report = [paths |-> <<>>, dependencies |-> EmptyMap]
    /\ vulnerabilityExposure = EmptyMap
    /\ dequeued = <<>>
    /\ pc = "idle"
    /\ \E path \in PathsUpTo(MaxPathLen), within \in SUBSET Names :
           call = newFrame(path, within)

\* one iteration of for (let node of path)
SimplifyIterate ==
    /\ ~call.returned
    /\ call.next <= Len(call.path)
    /\ call' = [simplifyNode(call, call.path[call.next]) EXCEPT !.next = call.next + 1]
    /\ UNCHANGED <<inputs, traversal>>

\* return simplifiedPath;
SimplifyReturn ==
    /\ ~call.returned
    /\ call.next > Len(call.path)
    /\ call' = [call EXCEPT !.returned = TRUE]
    /\ UNCHANGED <<inputs, traversal>>

SimplifyNext == SimplifyIterate \/ SimplifyReturn

SimplifySpec == SimplifyInit /\ [][SimplifyNext]_vars

(***************************************************************************)
(* Properties.                                                             *)
(***************************************************************************)
\* the record classifyDependency makes for the name carries the tag
Tagged(name, type) == type \in Range(classifyDependency(name).dependencyTypes)

Occurrences(seq, x) == Cardinality({i \in 1..Len(seq) : seq[i] = x})

\* the dequeued paths that were recorded as vulnerable, in order
discoveries ==
    SelectSeq(dequeued, LAMBDA p : Last(p) # "" /\ Tagged(Last(p), VULNERABLE))

\* a vulnerable node below no vulnerable and no development-only ancestor
Exposed(p) ==
    /\ Tagged(Last(p), VULNERABLE)
    /\ \A i \in 1..(Len(p) - 1) :
           ~Tagged(p[i], VULNERABLE) /\ ~Tagged(p[i], DEVELOPMENT_ONLY)

\* C1: when the traversal has finished, the simplified path of every vulnerable
\* node that has no vulnerable and no development-only proper ancestor is in
\* report.paths.
C1_Completeness ==
    pc = "done" =>
        \A p \in dependencyTree :
            Exposed(p) =>
                simplifyPath(p, withinProjectDependencies) \in Range(report.paths)

\* a finished run with such a node below the root's children, reported
C1_Witness ==
    /\ pc = "done"
    /\ \E p \in dependencyTree :
           /\ Len(p) >= 2
           /\ Exposed(p)
           /\ simplifyPath(p, withinProjectDependencies) \in Range(report.paths)

\* C2: for the tree root -> A -> B with B the one vulnerable name, the
\* within-project document [A] and no development-only name, the finished report
\* has paths = [[A, B]] and vulnerabilityExposure = {B: 1}.
C2_Example ==
    ( /\ pc = "done"
      /\ dependencyTree = {<<"A">>, <<"A", "B">>}
      /\ Range(vulnerabilities) = {"B"}
      /\ withinProjectDocument = <<"A">>
      /\ devDependencies = {} )
    => /\ report.paths = << <<"A", "B">> >>
       /\ report.vulnerabilityExposure = ("B" :> 1)

\* C3: no reported path has, before its last position, a name that is tagged
\* development-only and not tagged vulnerable.
C3_Pruning ==
    \A i \in 1..Len(report.paths) :
        \A k \in 1..(Len(report.paths[i]) - 1) :
            ~ ( /\ Tagged(report.paths[i][k], DEVELOPMENT_ONLY)
                /\ ~Tagged(report.paths[i][k], VULNERABLE) )

\* the maximum highestCvssScore over the records of the names of a path; 0 for a
\* path none of whose names has a record
MaxCvss(path) ==
    LET scores == {report.dependencies[n].highestCvssScore :
                      n \in Range(path) \cap DOMAIN report.dependencies}
    IN  IF scores = {} THEN 0 ELSE Max(scores)

\* C4: in the finished report, a path that comes before another one has a
\* maximum CVSS score at least as high.
C4_SortedByMaxCvss ==
    pc = "done" =>
        \A i, j \in 1..Len(report.paths) :
            i < j => MaxCvss(report.paths[i]) >= MaxCvss(report.paths[j])

\* the path with every maximal run of within-project names replaced by the last
\* name of the run
CollapseRuns(path, within) ==
    LET keep(i) == \/ path[i] \notin within
                   \/ i = Len(path)
                   \/ path[i + 1] \notin within
        F[i \in 0..Len(path)] ==
            IF i = 0 THEN <<>>
            ELSE IF keep(i) THEN Append(F[i - 1], path[i]) ELSE F[i - 1]
    IN  F[Len(path)]

\* C5: simplifyPath returns the path with every maximal run of within-project
\* names collapsed to the last name of the run, also for a run that ends the path.
C5_RunsCollapseToLast ==
    call.returned =>
        call.simplifiedPath = CollapseRuns(call.path, call.withinProjectDependencies)

\* C6: every entry of report.paths has at least one element and ends with the
\* vulnerable name whose discovery produced it.
C6_EndsAtVulnerable ==
    /\ \A i \in 1..Len(report.paths) :
           /\ Len(report.paths[i]) >= 1
           /\ Tagged(Last(report.paths[i]), VULNERABLE)
    /\ pc = "loop" =>
           \A i \in 1..Len(report.paths) :
               Last(report.paths[i]) = Last(discoveries[i])

NotWithin(path, within) == SelectSeq(path, LAMBDA n : n \notin within)

\* C7: the path simplifyPath returns is no longer than its input and has the
\* input's names that are not within-project, each as often and in the same
\* order; the empty path gives the empty path; no step changes the input path.
C7_SimplifyKeepsOthers ==
    /\ [](call.returned =>
            /\ Len(call.simplifiedPath) <= Len(call.path)
            /\ NotWithin(call.simplifiedPath, call.withinProjectDependencies)
                   = NotWithin(call.path, call.withinProjectDependencies)
            /\ (call.path = <<>> => call.simplifiedPath = <<>>))
    /\ [][call'.path = call.path]_vars

\* a returned call that collapsed a run and kept two other names
C7_Witness ==
    /\ call.returned
    /\ Len(call.simplifiedPath) < Len(call.path)
    /\ Len(NotWithin(call.path, call.withinProjectDependencies)) >= 1
    /\ Len(call.simplifiedPath) >= 2

\* C8: after the traversal, the exposure count of a name is at most the number
\* of tree nodes with that name, and no tree path was recorded twice.
C8_NoDoubleCount ==
    pc = "done" =>
        /\ \A name \in DOMAIN vulnerabilityExposure :
               vulnerabilityExposure[name]
                   <= Cardinality({p \in dependencyTree : Last(p) = name})
        /\ \A p \in Range(discoveries) : Occurrences(discoveries, p) <= 1

\* C9: the traversal loop eventually finds the queue empty and stops.
C9_Termination == <>(pc = "done")

\* a finished run whose queue was extended while it was drained
C9_Witness ==
    /\ pc = "done"
    /\ Len(dequeued) > Cardinality(dependencyTree)

RecordTags(name) == Range(report.dependencies[name].dependencyTypes)

\* C11: the record of a visited name has the within-project tag exactly when the
\* name is an element of the within-project array, the development-only tag
\* exactly when it is a key of the development-only document, and the lagging
\* tag exactly when it is a key of laggingDependencies.
C11_TagsByContainment ==
    \A name \in DOMAIN report.dependencies :
        /\ WITHIN_PROJECT \in RecordTags(name) <=> name \in Range(withinProjectDocument)
        /\ DEVELOPMENT_ONLY \in RecordTags(name) <=> name \in devDependencies
        /\ LAGGING \in RecordTags(name)
               <=> name \in laggingDependenciesData.laggingDependencies

\* C12: the record of a visited name has the score -1 exactly when it is not
\* tagged vulnerable.
C12_ScoreTagConsistency ==
    \A name \in DOMAIN report.dependencies :
        report.dependencies[name].highestCvssScore = -1
            <=> VULNERABLE \notin RecordTags(name)

\* C13: the record of a name has the interval releaseInterval[name] when the
\* mapping has an entry for the name, whatever the stored value, and -1 when it
\* has none.
C13_IntervalIsStoredValue ==
    \A name \in DOMAIN report.dependencies :
        report.dependencies[name].intervals =
            IF name \in DOMAIN laggingDependenciesData.releaseInterval
            THEN laggingDependenciesData.releaseInterval[name]
            ELSE -1

\* C14: no path that was dequeued, and no reported path, has a name tagged
\* vulnerable before its last position.
C14_StopsAtVulnerable ==
    /\ \A p \in Range(dequeued) :
           \A i \in 1..(Len(p) - 1) : ~Tagged(p[i], VULNERABLE)
    /\ \A p \in Range(report.paths) :
           \A i \in 1..(Len(p) - 1) : ~Tagged(p[i], VULNERABLE)

\* the paths a step appends to the queue: what follows the paths that were
\* already there, less the one the step dequeued
appendedPaths ==
    IF Len(dequeued') > Len(dequeued)
    THEN SubSeq(queue', Len(queue), Len(queue'))
    ELSE SubSeq(queue', Len(queue) + 1, Len(queue'))

\* C15: no step removes a name from foundVulnerableDeps, and no step appends to
\* the queue a path whose last name is already in foundVulnerableDeps.
C15_FoundNeverRequeued ==
    [][ /\ foundVulnerableDeps \subseteq foundVulnerableDeps'
        /\ \A i \in 1..Len(appendedPaths) :
               Last(appendedPaths[i]) \notin foundVulnerableDeps ]_vars

\* a path was expanded after a child of its node had been found vulnerable
C15_Witness ==
    \E i, j \in 1..Len(dequeued) :
        /\ i < j
        /\ Last(dequeued[i]) \in foundVulnerableDeps
        /\ Last(dequeued[j]) # ""
        /\ ~Tagged(Last(dequeued[j]), VULNERABLE)
        /\ ~Tagged(Last(dequeued[j]), DEVELOPMENT_ONLY)
        /\ Append(dequeued[j], Last(dequeued[i])) \in dependencyTree

\* the path is not empty and each of its prefixes is a node of the tree: its
\* first name is a child of the root and each next name a child of the one before
IsTreePath(p) ==
    /\ Len(p) >= 1
    /\ \A i \in 1..Len(p) : SubSeq(p, 1, i) \in dependencyTree

\* C16: the seeding puts every root-to-node path of the tree in the queue exactly
\* once, so that the queue has as many paths as the tree has nodes; and every
\* path that is ever in the queue is a non-empty path of the tree from a child of
\* the root along parent-child edges.
C16_QueueWellFormed ==
    /\ [][pc = "init" =>
            /\ \A p \in dependencyTree : Occurrences(queue', p) = 1
            /\ Len(queue') = Cardinality(dependencyTree)]_vars
    /\ [](\A p \in Range(queue) : IsTreePath(p))

\* the queue of a seeded tree holds a path of two names or more that an
\* expansion has appended
C16_Witness ==
    /\ pc = "loop"
    /\ Len(queue) > 0
    /\ Len(dequeued) + Len(queue) > Cardinality(dependencyTree)
    /\ Len(Last(queue)) >= 2
    /\ IsTreePath(Last(queue))

\* the non-empty names that end a dequeued path
visitedNames == {Last(p) : p \in Range(dequeued)} \ {""}

\* C17: report.dependencies has a record for exactly the non-empty names that end
\* a dequeued path, and the record is classifyDependency of the name; the step
\* that dequeues a path ending in the empty name changes neither the report nor
\* the exposure counts nor the found set and appends nothing to the queue.
C17_RecordsAreVisitedNames ==
    /\ [](/\ DOMAIN report.dependencies = visitedNames
          /\ \A name \in DOMAIN report.dependencies :
                 report.dependencies[name] = classifyDependency(name))
    /\ [][(Len(dequeued') > Len(dequeued) /\ Last(Last(dequeued')) = "") =>
            /\ report' = report
            /\ vulnerabilityExposure' = vulnerabilityExposure
            /\ foundVulnerableDeps' = foundVulnerableDeps
            /\ queue' = Tail(queue)]_vars

\* a path ending in the empty name was dequeued, as was one ending in a
\* non-empty name, which has its record
C17_Witness ==
    /\ \E p \in Range(dequeued) : Last(p) = ""
    /\ \E p \in Range(dequeued) : Last(p) # "" /\ Last(p) \in DOMAIN report.dependencies
    /\ "" \notin DOMAIN report.dependencies

====
